---- MODULE Spec2Model ----
(***************************************************************************)
(* TidyCal -> Substack sync.  The process modelled is the GDPR variant     *)
(* with the processed-bookings file (src/unnamed/part_000): Spec, SpecCrash *)
(* (with a crash and restart) and SpecLive (with a silent peer and the      *)
(* scheduling of the event loop).  The two older variants kept in          *)
(* src/index.js post to the Substack API; one invocation of their sync     *)
(* function is SpecHttp.  SpecFilter runs the filter alone, twice.        *)
(*                                                                         *)
(* Every `await` of the code is a point where other callbacks may run, so  *)
(* one action is the code between two awaits whose order matters.          *)
(***************************************************************************)
EXTENDS Integers, Sequences, FiniteSets, TLC

\* Bounds of the model.
NumBookings == 4      \* bookings that exist upstream, ids 1..NumBookings
MaxFetch == 3         \* longest list one fetch returns
MaxCycles == 2        \* cycles started in one run of the model, all may overlap
MaxInitFile == 1      \* longest processed_bookings.json found at first start
MaxCrashes == 1       \* crashes of the process (specification SpecCrash only)

\* CONFIG.AUTOMATION_START_TIME, on the model's time axis.
AUTOMATION_START_TIME == 1

VARIABLES
    mainPc,               \* position of the app.listen callback
    loadBuf,              \* what fs.readFile delivered to loadProcessedBookings
    file,                 \* processed_bookings.json on disk
    processedBookingIds,  \* the in-memory Set, in insertion order
    lastCheckTime,
    now,                  \* the clock; one tick per started cycle
    initialTimer,         \* the setTimeout(syncBookingsToSubstack, 5000)
    cyc,                  \* the invocations of syncBookingsToSubstack, by start order
    loadedIds,            \* history: strings the startup load put in the Set
    crashes,              \* history: crashes so far
    promised,             \* history: ids whose saveProcessedBooking had returned
                          \*          in a process that crashed since
    http,                 \* an invocation of syncBookingsToSubstack of the HTTP
                          \* variants (src/index.js); idle in Spec and SpecCrash
    probe                 \* the filter of syncBookingsToSubstack run twice on one
                          \* fetched list (SpecFilter); idle in the other
                          \* specifications

vars == <<mainPc, loadBuf, file, processedBookingIds, lastCheckTime, now,
          initialTimer, cyc, loadedIds, crashes, promised, http, probe>>

startup == <<mainPc, loadBuf, initialTimer, loadedIds>>
crashHistory == <<crashes, promised>>

Range(s) == {s[k] : k \in DOMAIN s}

\* ---------------------------------------------------------------- bookings

BookingIds == 1..NumBookings

\* created_at of the booking with this id: booking 1 predates the cutoff,
\* booking 2 was created exactly at it, the others after it.
CreatedAt(id) == id - 1

Booking(id) == [id |-> id, created_at |-> CreatedAt(id)]

Bookings == {Booking(id) : id \in BookingIds}

\* Lists without repetition (upstream ids are unique), at most MaxFetch long.
BookingLists ==
    UNION {{s \in [1..n -> Bookings] : \A a, b \in 1..n : a # b => s[a] # s[b]}
           : n \in 0..MaxFetch}

\* booking.id.toString()
IdToString(id) == ToString(id)

\* ---------------------------------------------------------------- JS Set

\* Set.prototype.has
SetHas(set, x) == x \in Range(set)

\* Set.prototype.add: insertion order kept, no second copy.
SetAdd(set, x) == IF SetHas(set, x) THEN set ELSE Append(set, x)

\* new Set(array)
RECURSIVE NewSet(_)
NewSet(array) ==
    IF array = <<>> THEN <<>>
    ELSE SetAdd(NewSet(SubSeq(array, 1, Len(array) - 1)), array[Len(array)])

\* Array.from(set)
ArrayFrom(set) == set

\* ---------------------------------------------------------------- the file

\* The text of the file is a sequence of JSON tokens; v is the content of a
\* string token.
Token(t, v) == [t |-> t, v |-> v]

RECURSIVE JSONelements(_)
JSONelements(array) ==
    IF array = <<>> THEN <<>>
    ELSE IF Len(array) = 1 THEN <<Token("str", array[1])>>
    ELSE <<Token("str", array[1]), Token(",", "")>> \o JSONelements(Tail(array))

\* Mutant of JSONstringify: the last element is not written.
JSONstringifyShort(array) ==
    <<Token("[", "")>>
        \o JSONelements(SubSeq(array, 1, Len(array) - 1))
        \o <<Token("]", "")>>

\* JSON.stringify(bookingArray, null, 2) of an array of strings
JSONstringify(array) ==
    <<Token("[", "")>> \o JSONelements(array) \o <<Token("]", "")>>

\* JSON.parse: a SyntaxError unless the text is a complete array, "[",
\* elements separated by ",", "]"
JSONparse(text) ==
    LET n == Len(text)
        complete ==
            /\ n >= 2
            /\ text[1].t = "[" /\ text[n].t = "]"
            /\ n = 2 \/ n % 2 = 1
            /\ \A k \in 2..(n - 1) :
                   IF k % 2 = 0 THEN text[k].t = "str" ELSE text[k].t = ","
    IN IF complete
       THEN [threw |-> FALSE, value |-> [k \in 1..((n - 1) \div 2) |-> text[2 * k].v]]
       ELSE [threw |-> TRUE, value |-> <<>>]

NoFile == [kind |-> "absent", text |-> <<>>]

\* the file as fs.writeFile leaves it between truncating and writing: empty
BadFile == [kind |-> "present", text |-> <<>>]

\* what fs.readFile delivers when it rejects for a file that exists (EIO,
\* EMFILE, EACCES)
ReadError == [kind |-> "error", text |-> <<>>]

\* fs.writeFile(..., JSON.stringify(bookingArray, null, 2)) once completed
JsonFile(array) == [kind |-> "present", text |-> JSONstringify(array)]

\* What an earlier run of the process can have left in the file: the ids,
\* as strings, of bookings it submitted.
StringLists ==
    UNION {{s \in [1..n -> {IdToString(id) : id \in {b \in BookingIds :
                                   CreatedAt(b) > AUTOMATION_START_TIME}}] :
              \A a, b \in 1..n : a # b => s[a] # s[b]}
           : n \in 0..MaxInitFile}

\* a write of such a list that was cut short: a proper prefix of its text
TornFiles ==
    UNION {{[kind |-> "present", text |-> SubSeq(JSONstringify(s), 1, k)]
               : k \in 0..(Len(JSONstringify(s)) - 1)}
           : s \in StringLists}

InitFiles == {NoFile, BadFile} \cup TornFiles \cup {JsonFile(s) : s \in StringLists}

\* Mutant of loadProcessedBookings: without the try/catch.
loadProcessedBookingsNoCatch(data) ==
    IF data.kind # "present" THEN [threw |-> TRUE, set |-> <<>>]
    ELSE IF JSONparse(data.text).threw THEN [threw |-> TRUE, set |-> <<>>]
    ELSE [threw |-> FALSE, set |-> NewSet(JSONparse(data.text).value)]

\* loadProcessedBookings, from what readFile delivered: a rejection of
\* readFile or a throw of JSON.parse lands in the catch, which starts with
\* an empty Set.  The function has no path that throws.
loadProcessedBookings(data) ==
    IF data.kind # "present" THEN [threw |-> FALSE, set |-> <<>>]
    ELSE IF JSONparse(data.text).threw THEN [threw |-> FALSE, set |-> <<>>]
    ELSE [threw |-> FALSE, set |-> NewSet(JSONparse(data.text).value)]

\* ---------------------------------------------------------------- fetch

\* What axios.get does: a response with a list in data.data, a response
\* without one (data.data undefined or null), or a rejection (transport
\* error, timeout, non-2xx status).
FetchOutcomes ==
    {[kind |-> "ok", data |-> l] : l \in BookingLists}
        \cup {[kind |-> "no_data", data |-> <<>>], [kind |-> "error", data |-> <<>>]}

\* Mutant of getNewBookings: the catch rethrows instead of returning [].
getNewBookingsRethrow(outcome) ==
    IF outcome.kind = "ok" THEN [threw |-> FALSE, value |-> outcome.data]
    ELSE IF outcome.kind = "no_data" THEN [threw |-> FALSE, value |-> <<>>]
    ELSE [threw |-> TRUE, value |-> <<>>]

\* getNewBookings: response.data.data || [], and [] from the catch.  The
\* function has no path that throws.
getNewBookings(outcome) ==
    IF outcome.kind = "ok" THEN [threw |-> FALSE, value |-> outcome.data]
    ELSE IF outcome.kind = "no_data" THEN [threw |-> FALSE, value |-> <<>>]
    ELSE [threw |-> FALSE, value |-> <<>>]

\* ---------------------------------------------------------------- filter

\* Mutant of isNewBooking: >= for >.
isNewBookingInclusive(booking) == booking.created_at >= AUTOMATION_START_TIME

\* const isNewBooking = bookingCreatedAt > CONFIG.AUTOMATION_START_TIME
isNewBooking(booking) == booking.created_at > AUTOMATION_START_TIME

\* Mutant of notAlreadyProcessed: has(booking.id) without toString(); a
\* number is never a member of a Set of strings.
notAlreadyProcessedRaw(booking, set) == TRUE

\* const notAlreadyProcessed = !processedBookingIds.has(booking.id.toString())
notAlreadyProcessed(booking, set) == ~SetHas(set, IdToString(booking.id))

\* Mutant of gdprCompliant: only bookings newer than lastCheckTime pass.
gdprCompliantSince(booking, set) ==
    /\ isNewBooking(booking)
    /\ notAlreadyProcessed(booking, set)
    /\ booking.created_at > lastCheckTime

\* the callback of allBookings.filter in part_000
gdprCompliant(booking, set) ==
    IF ~isNewBooking(booking) THEN FALSE
    ELSE IF ~notAlreadyProcessed(booking, set) THEN FALSE
    ELSE TRUE

\* Array.prototype.filter with that callback
RECURSIVE gdprCompliantBookings(_, _)
gdprCompliantBookings(allBookings, set) ==
    IF allBookings = <<>> THEN <<>>
    ELSE LET rest == gdprCompliantBookings(Tail(allBookings), set)
         IN IF gdprCompliant(Head(allBookings), set)
            THEN <<Head(allBookings)>> \o rest
            ELSE rest

\* --- the cutoff-only variant (src/index.js, second file part)

\* allBookings.filter(booking => ... return isNewBooking)
RECURSIVE gdprCompliantBookingsV2(_)
gdprCompliantBookingsV2(allBookings) ==
    IF allBookings = <<>> THEN <<>>
    ELSE LET rest == gdprCompliantBookingsV2(Tail(allBookings))
         IN IF isNewBooking(Head(allBookings))
            THEN <<Head(allBookings)>> \o rest
            ELSE rest

\* if (bookingCreatedAt <= CONFIG.AUTOMATION_START_TIME) { ... continue; }
safetyStop(booking) == booking.created_at <= AUTOMATION_START_TIME

\* the bookings the loop of that variant passes to subscribeToSubstack
RECURSIVE submittedV2(_)
submittedV2(gdpr) ==
    IF gdpr = <<>> THEN <<>>
    ELSE IF safetyStop(Head(gdpr)) THEN submittedV2(Tail(gdpr))
    ELSE <<Head(gdpr)>> \o submittedV2(Tail(gdpr))

\* ---------------------------------------------------------------- submit

\* What the outside world does to one run of the browser automation:
\*   launch_error  puppeteer.launch throws (browser stays undefined)
\*   nav_error     page.goto fails with a network error
\*   timeout       page.goto or a waitForSelector times out
\*   no_button     neither page.$ finds a button
\*   unclear       the button was clicked, no success indicator on the page
\*   indicated     the button was clicked, the page or url shows a success indicator
\* and whether browser.close() in the finally block throws.
SubmitPaths ==
    {"launch_error", "nav_error", "timeout", "no_button", "unclear", "indicated"}

SubmitEnvs ==
    {[path |-> p, closeThrows |-> t] : p \in SubmitPaths, t \in BOOLEAN}
        \ {[path |-> "launch_error", closeThrows |-> TRUE]}

NoEnv == [path |-> "none", closeThrows |-> FALSE]

\* const isSuccess = successIndicators.some(...) || url.includes(...)
isSuccess(env) == env.path = "indicated"

\* Mutant of subscribeResult: a timeout is taken for a submission.
subscribeResultTimeoutTrue(env) ==
    IF env.path \in {"launch_error", "nav_error"} THEN FALSE
    ELSE IF env.path = "no_button" THEN FALSE
    ELSE TRUE

\* The value the try/catch of subscribeToSubstack (part_000) returns.
subscribeResult(env) ==
    IF env.path \in {"launch_error", "nav_error", "timeout"} THEN FALSE
    ELSE IF env.path = "no_button" THEN FALSE
    ELSE IF isSuccess(env) THEN TRUE
    ELSE TRUE     \* "Return true anyway since submission went through"

\* subscribeToSubstack (part_000) as its caller sees it: "true", "false", or
\* "throw" when browser.close() throws inside finally.
subscribeToSubstack(env) ==
    IF env.path # "launch_error" /\ env.closeThrows THEN "throw"
    ELSE IF subscribeResult(env) THEN "true" ELSE "false"

\* --- the HTTP variant with a fallback endpoint (src/index.js, second part)

\* What axios.post does: it resolves with a 2xx status, or rejects (network
\* error, timeout: status 0; a non-2xx status such as 500).
ApiResponses ==
    {[rejected |-> FALSE, status |-> st] : st \in {200, 201, 204}}
        \cup {[rejected |-> TRUE, status |-> st] : st \in {0, 500}}

\* subscribeToSubstack of that variant: /api/v1/subscribe, and /api/v1/free
\* from the catch
subscribeToSubstackV2(primary, alt) ==
    IF ~primary.rejected THEN primary.status = 200 \/ primary.status = 201
    ELSE IF ~alt.rejected THEN alt.status = 200 \/ alt.status = 201
    ELSE FALSE

\* subscribeToSubstack of the first variant (src/index.js, first part): one
\* post to /api/v1/free, no fallback
subscribeToSubstackV1(response) == ~response.rejected /\ response.status = 200

\* no response yet
NoResponse == [rejected |-> FALSE, status |-> -1]

\* the url the first axios.post of subscribeToSubstack goes to
PrimaryEndpoint(variant) ==
    IF variant = "v1" THEN "/api/v1/free" ELSE "/api/v1/subscribe"

\* the url of the axios.post in the catch of the second variant
AltEndpoint == "/api/v1/free"

\* One invocation of syncBookingsToSubstack of an HTTP variant: which part
\* of src/index.js it is, where it is, the list its loop runs over, and for
\* the call of subscribeToSubstack in progress the requests issued and the
\* answers to them.
IdleHttp ==
    [variant |-> "none", pc |-> "idle", list |-> <<>>, i |-> 0,
     requests |-> <<>>, primary |-> NoResponse, alt |-> NoResponse,
     success |-> FALSE]

\* Two runs of the filter of syncBookingsToSubstack on one fetched list:
\* the list, and for each run the clock and lastCheckTime it ran under and
\* the list it handed to the loop.
IdleProbe == [pc |-> "idle", allBookings |-> <<>>, runs |-> <<>>]

\* values of the clock and of lastCheckTime
Times == 0..MaxCycles

\* ---------------------------------------------------------------- record

\* saveProcessedBooking up to its await: the Set after add(bookingId.toString())
saveProcessedBooking(set, bookingId) == SetAdd(set, IdToString(bookingId))

\* Mutant of recordOutcome: the booking is recorded whatever the outcome.
recordAlways(success, set, bookingId) == saveProcessedBooking(set, bookingId)

\* the Set after the if (success) {...} else {...} of the loop
recordOutcome(success, set, bookingId) ==
    IF success THEN saveProcessedBooking(set, bookingId) ELSE set

\* ---------------------------------------------------------------- cycles

Cycles == 1..MaxCycles

\* One invocation of syncBookingsToSubstack: where it is, its locals, and as
\* history what getNewBookings met (fetchFailed), the ids subscribeToSubstack
\* returned true for (won) and false for (failed), the ids whose write in
\* saveProcessedBooking was rejected (unsaved), and how it ended.
IdleCycle ==
    [pc |-> "idle", fetchFailed |-> FALSE, allBookings |-> <<>>,
     gdpr |-> <<>>, i |-> 0, success |-> FALSE, env |-> NoEnv, snap |-> <<>>,
     won |-> {}, failed |-> {}, unsaved |-> {}, how |-> "none"]

\* the booking the loop of cycle c is at
Cur(c) == cyc[c].gdpr[cyc[c].i]

Running(c) == cyc[c].pc \notin {"idle", "ended"}

Init ==
    /\ mainPc = "starting"
    /\ loadBuf = NoFile
    /\ file \in InitFiles
    /\ processedBookingIds = <<>>
    /\ lastCheckTime = 0
    /\ now = 0
    /\ initialTimer = "unarmed"
    /\ cyc = [c \in Cycles |-> IdleCycle]
    /\ loadedIds = {}
    /\ crashes = 0
    /\ promised = {}
    /\ http = IdleHttp
    /\ probe = IdleProbe

\* --- startup: the callback of app.listen

\* The server listens; the callback logs twice and calls
\* loadProcessedBookings, which issues fs.readFile.
ListenCallback ==
    /\ mainPc = "starting"
    /\ mainPc' = "loading"
    /\ UNCHANGED <<loadBuf, initialTimer, loadedIds, file, processedBookingIds,
                   lastCheckTime, now, cyc, crashHistory, http, probe>>

\* fs.readFile reads the file as it is at that moment, or rejects.
LoadRead ==
    /\ mainPc = "loading"
    /\ mainPc' = "read"
    /\ \E rejected \in BOOLEAN :
         loadBuf' = IF rejected /\ file.kind = "present" THEN ReadError ELSE file
    /\ UNCHANGED <<initialTimer, loadedIds, file, processedBookingIds,
                   lastCheckTime, now, cyc, crashHistory, http, probe>>

\* The continuation of loadProcessedBookings replaces the Set; the callback
\* then arms the initial timer.  (Were the load to throw, the callback would
\* end there.)
LoadAssign ==
    /\ mainPc = "read"
    /\ LET loaded == loadProcessedBookings(loadBuf)
       IN IF loaded.threw
          THEN /\ mainPc' = "failed"
               /\ UNCHANGED <<processedBookingIds, loadedIds, initialTimer>>
          ELSE /\ mainPc' = "ready"
               /\ processedBookingIds' = loaded.set
               /\ loadedIds' = Range(loaded.set)
               /\ initialTimer' = "armed"
    /\ loadBuf' = NoFile
    /\ UNCHANGED <<file, lastCheckTime, now, cyc, crashHistory, http, probe>>

\* --- the three ways syncBookingsToSubstack is invoked

\* syncBookingsToSubstack is entered: "Starting sync check..." is logged and
\* getNewBookings issues its request.  Nothing keeps a second invocation
\* from starting while one is running.
Start ==
    /\ now < MaxCycles
    /\ now' = now + 1
    /\ cyc' = [cyc EXCEPT ![now + 1] = [IdleCycle EXCEPT !.pc = "fetch"]]

\* setInterval(syncBookingsToSubstack, CHECK_INTERVAL), registered at module
\* load; its first tick comes CHECK_INTERVAL (5 minutes) later, after the
\* startup callback.  Ticks go on while a cycle is running.
TimerTick ==
    /\ mainPc = "ready"
    /\ Start
    /\ UNCHANGED <<startup, file, processedBookingIds, lastCheckTime, crashHistory, http, probe>>

\* setTimeout(syncBookingsToSubstack, 5000)
InitialSync ==
    /\ initialTimer = "armed"
    /\ initialTimer' = "fired"
    /\ Start
    /\ UNCHANGED <<mainPc, loadBuf, loadedIds, file, processedBookingIds,
                   lastCheckTime, crashHistory, http, probe>>

\* app.get('/sync'): served as soon as the server listens, also while the
\* startup callback is still awaiting its log writes and the load
ManualSync ==
    /\ mainPc # "starting"
    /\ Start
    /\ UNCHANGED <<startup, file, processedBookingIds, lastCheckTime, crashHistory, http, probe>>

\* --- syncBookingsToSubstack

\* the function returns (or throws): its locals are gone
End(c, how) == [IdleCycle EXCEPT !.pc = "ended", !.how = how,
                                 !.fetchFailed = cyc[c].fetchFailed,
                                 !.won = cyc[c].won, !.failed = cyc[c].failed,
                                 !.unsaved = cyc[c].unsaved]

\* getNewBookings resolves and the filter runs in the same turn.
FetchDone(c) ==
    /\ cyc[c].pc = "fetch"
    /\ \E outcome \in FetchOutcomes :
         LET got == getNewBookings(outcome)
             allBookings == got.value
             failed == outcome.kind = "error"
         IN cyc' = [cyc EXCEPT ![c] =
                IF got.threw
                THEN [End(c, "threw") EXCEPT !.fetchFailed = failed]
                ELSE IF Len(allBookings) = 0
                THEN [End(c, "no_bookings") EXCEPT !.fetchFailed = failed]
                ELSE [@ EXCEPT !.pc = "filtered",
                               !.fetchFailed = failed,
                               !.allBookings = allBookings,
                               !.gdpr = gdprCompliantBookings(allBookings,
                                                              processedBookingIds)]]
    /\ UNCHANGED <<startup, file, processedBookingIds, lastCheckTime, now,
                   crashHistory, http, probe>>

\* The peer accepts the request of getNewBookings and never answers.
\* axios.get is called without a timeout option (axios waits without limit),
\* so its promise never settles and the invocation stays where it is.
FetchHang(c) ==
    /\ cyc[c].pc = "fetch"
    /\ cyc' = [cyc EXCEPT ![c].pc = "hung"]
    /\ UNCHANGED <<startup, file, processedBookingIds, lastCheckTime, now,
                   crashHistory, http, probe>>

\* Mutant of AfterFilter: the early return sets lastCheckTime.
AfterFilterStamp(c) ==
    /\ cyc[c].pc = "filtered"
    /\ cyc' = [cyc EXCEPT ![c] =
           IF Len(cyc[c].gdpr) = 0
           THEN End(c, "no_new")
           ELSE [@ EXCEPT !.pc = "submitting", !.i = 1, !.allBookings = <<>>]]
    /\ lastCheckTime' = IF Len(cyc[c].gdpr) = 0 THEN now ELSE lastCheckTime
    /\ UNCHANGED <<startup, file, processedBookingIds, now, crashHistory, http, probe>>

\* after the "Found ..." log: early return, or the loop is entered and
\* subscribeToSubstack is called for the first booking
AfterFilter(c) ==
    /\ cyc[c].pc = "filtered"
    /\ cyc' = [cyc EXCEPT ![c] =
           IF Len(cyc[c].gdpr) = 0
           THEN End(c, "no_new")
           ELSE [@ EXCEPT !.pc = "submitting", !.i = 1, !.allBookings = <<>>]]
    /\ UNCHANGED <<startup, file, processedBookingIds, lastCheckTime, now,
                   crashHistory, http, probe>>

\* const success = await subscribeToSubstack(email, name) returns, or throws,
\* which rejects the cycle's promise
SubmitReturn(c) ==
    /\ cyc[c].pc = "submitting"
    /\ \E env \in SubmitEnvs :
         LET r == subscribeToSubstack(env)
         IN cyc' = [cyc EXCEPT ![c] =
                IF r = "throw" THEN End(c, "threw")
                ELSE [@ EXCEPT !.pc = "submitted", !.env = env,
                               !.success = (r = "true"),
                               !.won = IF r = "true" THEN @ \cup {Cur(c).id} ELSE @,
                               !.failed = IF r = "false" THEN @ \cup {Cur(c).id} ELSE @]]
    /\ UNCHANGED <<startup, file, processedBookingIds, lastCheckTime, now,
                   crashHistory, http, probe>>

\* Mutant of AfterSubmit: saveProcessedBooking and the delay are not awaited
\* after a success; the next call is made at once.
AfterSubmitNoAwait(c) ==
    /\ cyc[c].pc = "submitted"
    /\ processedBookingIds' =
           recordOutcome(cyc[c].success, processedBookingIds, Cur(c).id)
    /\ cyc' = [cyc EXCEPT ![c] =
           IF cyc[c].success /\ cyc[c].i < Len(cyc[c].gdpr)
           THEN [@ EXCEPT !.pc = "submitting", !.env = NoEnv, !.i = @ + 1]
           ELSE [@ EXCEPT !.pc = "pacing", !.env = NoEnv]]
    /\ UNCHANGED <<startup, file, lastCheckTime, now, crashHistory, http, probe>>

\* if (success): saveProcessedBooking adds to the Set and issues the write
\* of the whole Set; else nothing is recorded.
AfterSubmit(c) ==
    /\ cyc[c].pc = "submitted"
    /\ processedBookingIds' =
           recordOutcome(cyc[c].success, processedBookingIds, Cur(c).id)
    /\ cyc' = [cyc EXCEPT ![c] =
           IF cyc[c].success
           THEN [@ EXCEPT !.pc = "saving", !.env = NoEnv,
                          !.snap = ArrayFrom(processedBookingIds')]
           ELSE [@ EXCEPT !.pc = "pacing", !.env = NoEnv]]
    /\ UNCHANGED <<startup, file, lastCheckTime, now, crashHistory, http, probe>>

\* fs.writeFile opens the file with flag 'w': it is truncated first
WriteOpen(c) ==
    /\ cyc[c].pc = "saving"
    /\ cyc' = [cyc EXCEPT ![c].pc = "writing"]
    /\ file' = BadFile
    /\ UNCHANGED <<startup, processedBookingIds, lastCheckTime, now, crashHistory, http, probe>>

\* the write completes and saveProcessedBooking returns
WriteDone(c) ==
    /\ cyc[c].pc = "writing"
    /\ cyc' = [cyc EXCEPT ![c].pc = "pacing", ![c].snap = <<>>]
    /\ file' = JsonFile(cyc[c].snap)
    /\ UNCHANGED <<startup, processedBookingIds, lastCheckTime, now, crashHistory, http, probe>>

\* the write rejects (before or after the open); the catch logs and
\* saveProcessedBooking returns
WriteFail(c) ==
    /\ cyc[c].pc \in {"saving", "writing"}
    /\ cyc' = [cyc EXCEPT ![c].pc = "pacing", ![c].snap = <<>>,
                          ![c].unsaved = @ \cup {Cur(c).id}]
    /\ UNCHANGED <<startup, file, processedBookingIds, lastCheckTime, now,
                   crashHistory, http, probe>>

\* Mutant of Pace: lastCheckTime is set only when no submission failed.
PaceStampOnSuccess(c) ==
    /\ cyc[c].pc = "pacing"
    /\ IF cyc[c].i < Len(cyc[c].gdpr)
       THEN /\ cyc' = [cyc EXCEPT ![c].pc = "submitting", ![c].i = @ + 1]
            /\ UNCHANGED lastCheckTime
       ELSE /\ cyc' = [cyc EXCEPT ![c] = End(c, "completed")]
            /\ lastCheckTime' = IF cyc[c].failed = {} THEN now ELSE lastCheckTime
    /\ UNCHANGED <<startup, file, processedBookingIds, now, crashHistory, http, probe>>

\* the 1 s delay, then subscribeToSubstack is called for the next booking,
\* or the loop is over and lastCheckTime is set
Pace(c) ==
    /\ cyc[c].pc = "pacing"
    /\ IF cyc[c].i < Len(cyc[c].gdpr)
       THEN /\ cyc' = [cyc EXCEPT ![c].pc = "submitting", ![c].i = @ + 1]
            /\ UNCHANGED lastCheckTime
       ELSE /\ cyc' = [cyc EXCEPT ![c] = End(c, "completed")]
            /\ lastCheckTime' = now
    /\ UNCHANGED <<startup, file, processedBookingIds, now, crashHistory, http, probe>>

\* --- the process dies and is started again

\* ids whose saveProcessedBooking has returned in cycle c
Recorded(c) ==
    IF cyc[c].pc \in {"submitted", "saving", "writing"}
    THEN cyc[c].won \ {Cur(c).id}
    ELSE cyc[c].won

\* Memory is lost, the file stays as it is (truncated when a write was open),
\* module load runs again.
Crash ==
    /\ crashes < MaxCrashes
    /\ crashes' = crashes + 1
    /\ promised' = promised \cup UNION {Recorded(c) : c \in Cycles}
    /\ mainPc' = "starting"
    /\ loadBuf' = NoFile
    /\ initialTimer' = "unarmed"
    /\ loadedIds' = {}
    /\ processedBookingIds' = <<>>
    /\ lastCheckTime' = now
    /\ cyc' = [c \in Cycles |->
                 IF cyc[c].pc = "idle" THEN IdleCycle
                 ELSE [IdleCycle EXCEPT !.pc = "ended", !.how = "killed"]]
    /\ UNCHANGED <<file, now, http, probe>>

\* --- the HTTP variants of src/index.js

\* syncBookingsToSubstack of one of the two variants is entered and
\* getNewBookings issues its request
StartHttp ==
    /\ http.pc = "idle"
    /\ \E v \in {"v1", "v2"} :
         http' = [IdleHttp EXCEPT !.variant = v, !.pc = "fetch"]
    /\ UNCHANGED <<startup, file, processedBookingIds, lastCheckTime, now, cyc,
                   crashHistory, probe>>

\* getNewBookings resolves; the early returns; the second variant filters on
\* the cutoff, the first passes every fetched booking on
FetchDoneHttp ==
    /\ http.pc = "fetch"
    /\ \E outcome \in FetchOutcomes :
         LET allBookings == getNewBookings(outcome).value
             list == IF http.variant = "v2"
                     THEN gdprCompliantBookingsV2(allBookings)
                     ELSE allBookings
         IN http' = IF Len(allBookings) = 0 \/ Len(list) = 0
                    THEN [IdleHttp EXCEPT !.variant = http.variant, !.pc = "ended"]
                    ELSE [http EXCEPT !.pc = "loop", !.list = list, !.i = 1]
    /\ UNCHANGED <<startup, file, processedBookingIds, lastCheckTime, now, cyc,
                   crashHistory, probe>>

\* the head of the loop body: the safety stop of the second variant
\* (continue), else subscribeToSubstack is called and posts to its first url
CallHttp ==
    /\ http.pc = "loop"
    /\ IF http.variant = "v2" /\ safetyStop(http.list[http.i])
       THEN IF http.i < Len(http.list)
            THEN /\ http' = [http EXCEPT !.i = @ + 1]
                 /\ UNCHANGED lastCheckTime
            ELSE /\ http' = [IdleHttp EXCEPT !.variant = http.variant, !.pc = "ended"]
                 /\ lastCheckTime' = now
       ELSE /\ http' = [http EXCEPT !.pc = "primary",
                                    !.requests = <<PrimaryEndpoint(http.variant)>>,
                                    !.primary = NoResponse, !.alt = NoResponse]
            /\ UNCHANGED lastCheckTime
    /\ UNCHANGED <<startup, file, processedBookingIds, now, cyc, crashHistory, probe>>

\* Mutant of PrimaryResponse: a rejected first post is repeated once before
\* the catch runs.
PrimaryResponseRetry ==
    /\ http.pc = "primary"
    /\ \E r \in ApiResponses :
         http' =
             IF http.variant = "v1"
             THEN [http EXCEPT !.pc = "returned", !.primary = r,
                               !.success = subscribeToSubstackV1(r)]
             ELSE IF ~r.rejected
             THEN [http EXCEPT !.pc = "returned", !.primary = r,
                               !.success = subscribeToSubstackV2(r, NoResponse)]
             ELSE IF Len(http.requests) < 2
             THEN [http EXCEPT !.requests = Append(@, PrimaryEndpoint(http.variant))]
             ELSE [http EXCEPT !.pc = "alt", !.primary = r,
                               !.requests = Append(@, AltEndpoint)]
    /\ UNCHANGED <<startup, file, processedBookingIds, lastCheckTime, now, cyc,
                   crashHistory, probe>>

\* the first axios.post settles: the function returns, or (second variant,
\* rejection) its catch posts to the alternative url
PrimaryResponse ==
    /\ http.pc = "primary"
    /\ \E r \in ApiResponses :
         http' =
             IF http.variant = "v1"
             THEN [http EXCEPT !.pc = "returned", !.primary = r,
                               !.success = subscribeToSubstackV1(r)]
             ELSE IF ~r.rejected
             THEN [http EXCEPT !.pc = "returned", !.primary = r,
                               !.success = subscribeToSubstackV2(r, NoResponse)]
             ELSE [http EXCEPT !.pc = "alt", !.primary = r,
                               !.requests = Append(@, AltEndpoint)]
    /\ UNCHANGED <<startup, file, processedBookingIds, lastCheckTime, now, cyc,
                   crashHistory, probe>>

\* the alternative post settles and the function returns
AltResponse ==
    /\ http.pc = "alt"
    /\ \E r \in ApiResponses :
         http' = [http EXCEPT !.pc = "returned", !.alt = r,
                              !.success = subscribeToSubstackV2(http.primary, r)]
    /\ UNCHANGED <<startup, file, processedBookingIds, lastCheckTime, now, cyc,
                   crashHistory, probe>>

\* the outcome is logged; after the 1 s delay the loop goes on, or it is over
\* and lastCheckTime is set
PaceHttp ==
    /\ http.pc = "returned"
    /\ IF http.i < Len(http.list)
       THEN /\ http' = [http EXCEPT !.pc = "loop", !.i = @ + 1, !.requests = <<>>,
                                    !.primary = NoResponse, !.alt = NoResponse,
                                    !.success = FALSE]
            /\ UNCHANGED lastCheckTime
       ELSE /\ http' = [IdleHttp EXCEPT !.variant = http.variant, !.pc = "ended"]
            /\ lastCheckTime' = now
    /\ UNCHANGED <<startup, file, processedBookingIds, now, cyc, crashHistory, probe>>

Next ==
    \/ ListenCallback
    \/ LoadRead
    \/ LoadAssign
    \/ TimerTick
    \/ InitialSync
    \/ ManualSync
    \/ \E c \in Cycles : FetchDone(c)
    \/ \E c \in Cycles : AfterFilter(c)
    \/ \E c \in Cycles : SubmitReturn(c)
    \/ \E c \in Cycles : AfterSubmit(c)
    \/ \E c \in Cycles : WriteOpen(c)
    \/ \E c \in Cycles : WriteDone(c)
    \/ \E c \in Cycles : WriteFail(c)
    \/ \E c \in Cycles : Pace(c)

Spec == Init /\ [][Next]_vars

NextCrash == Next \/ Crash

SpecCrash == Init /\ [][NextCrash]_vars

\* --- the filter on its own

\* getNewBookings has returned a list, and the ProcessedSet is what earlier
\* cycles or the startup load made it
ProbeSetup ==
    /\ probe.pc = "idle"
    /\ \E list \in BookingLists \ {<<>>}, set \in StringLists :
         /\ probe' = [IdleProbe EXCEPT !.pc = "clock", !.allBookings = list]
         /\ processedBookingIds' = set
    /\ UNCHANGED <<startup, file, lastCheckTime, now, cyc, crashHistory, http>>

\* time passes and cycles complete: the clock and lastCheckTime are what
\* they are when the next cycle reaches its filter
ProbeClock ==
    /\ probe.pc = "clock"
    /\ Len(probe.runs) < 2
    /\ \E at \in Times, lct \in Times :
         /\ lct <= at
         /\ now' = at
         /\ lastCheckTime' = lct
    /\ probe' = [probe EXCEPT !.pc = "filter"]
    /\ UNCHANGED <<startup, file, processedBookingIds, cyc, crashHistory, http>>

\* allBookings.filter(...) of one cycle
ProbeFilter ==
    /\ probe.pc = "filter"
    /\ probe' = [probe EXCEPT
           !.pc = "clock",
           !.runs = Append(@, [at |-> now, lct |-> lastCheckTime,
                               gdpr |-> gdprCompliantBookings(probe.allBookings,
                                                              processedBookingIds)])]
    /\ UNCHANGED <<startup, file, processedBookingIds, lastCheckTime, now, cyc,
                   crashHistory, http>>

\* The process with a peer that may go silent, and the scheduling Node.js
\* gives: a settled promise's continuation runs, a timer fires, the
\* browser calls carry timeouts, a write ends one way or the other.
NextLive == Next \/ \E c \in Cycles : FetchHang(c)

Fairness ==
    \A c \in Cycles :
        /\ WF_vars(FetchDone(c))
        /\ WF_vars(AfterFilter(c))
        /\ WF_vars(SubmitReturn(c))
        /\ WF_vars(AfterSubmit(c))
        /\ WF_vars(WriteOpen(c) \/ WriteFail(c))
        /\ WF_vars(WriteDone(c) \/ WriteFail(c))
        /\ WF_vars(Pace(c))

SpecLive == Init /\ [][NextLive]_vars /\ Fairness

\* One invocation of an HTTP variant, run on its own.
InitHttp == Init /\ file = NoFile

NextHttp ==
    \/ StartHttp
    \/ FetchDoneHttp
    \/ CallHttp
    \/ PrimaryResponse
    \/ AltResponse
    \/ PaceHttp

SpecHttp == InitHttp /\ [][NextHttp]_vars

\* The filter of two cycles that are given the same list and ProcessedSet.
InitFilter == Init /\ file = NoFile

NextFilter ==
    \/ ProbeSetup
    \/ ProbeClock
    \/ ProbeFilter

SpecFilter == InitFilter /\ [][NextFilter]_vars

\* ================================================================ claims

\* ids for which subscribeToSubstack has returned true, in any cycle
SucceededIds == UNION {cyc[c].won : c \in Cycles}

Ids(list) == {list[k].id : k \in DOMAIN list}

\* steps of cycle c
CallStep(c) == cyc[c].pc # "submitting" /\ cyc'[c].pc = "submitting"
FilterStep(c) == cyc[c].pc = "fetch" /\ cyc'[c].pc = "filtered"
EndStep(c) == cyc[c].pc # "ended" /\ cyc'[c].pc = "ended"
StartStep(c) == cyc[c].pc = "idle" /\ cyc'[c].pc = "fetch"

\* C1: once subscribeToSubstack has returned true for a booking id, no later
\* call of subscribeToSubstack is made for that id, whatever the interleaving
\* of timer-driven and manual cycles.
C1_AtMostOnce ==
    [][\A c \in Cycles :
          CallStep(c) => cyc'[c].gdpr[cyc'[c].i].id \notin SucceededIds]_vars

\* C2: a booking with created_at <= AUTOMATION_START_TIME is never passed to
\* subscribeToSubstack: not by the loop of the processed-set variant, nor by
\* the loop of the cutoff-only variant run on the same fetched list.
C2_CutoffNeverSubmitted ==
    \A c \in Cycles :
        /\ \A k \in 1..cyc[c].i :
               ~(cyc[c].gdpr[k].created_at <= AUTOMATION_START_TIME)
        /\ \A b \in Range(submittedV2(gdprCompliantBookingsV2(cyc[c].allBookings))) :
               ~(b.created_at <= AUTOMATION_START_TIME)

\* C2 witness: in a second cycle, after a completed one, the fetched list holds
\* a booking created exactly at the cutoff and one created before it, and the
\* filter has let another booking through.
C2_Witness ==
    \E c \in Cycles \ {1} :
        /\ cyc[c - 1].pc = "ended" /\ cyc[c - 1].how = "completed"
        /\ cyc[c].pc = "filtered"
        /\ \E b \in Range(cyc[c].allBookings) : b.created_at = AUTOMATION_START_TIME
        /\ \E b \in Range(cyc[c].allBookings) : b.created_at < AUTOMATION_START_TIME
        /\ cyc[c].gdpr # <<>>

\* C3: a booking whose submission has succeeded in a cycle is in the
\* ProcessedSet when a later cycle begins, and is not in the eligible set of
\* any later cycle.
C3_SucceededExcludedLater ==
    [][/\ \A m \in Cycles :
             StartStep(m) =>
                 \A b \in SucceededIds : SetHas(processedBookingIds, IdToString(b))
       /\ \A m \in Cycles :
             FilterStep(m) =>
                 \A n \in 1..(m - 1) : cyc[n].won \cap Ids(cyc'[m].gdpr) = {}]_vars

\* C4: a booking for which subscribeToSubstack returned false in a cycle is
\* absent from the ProcessedSet when that cycle ends, and is eligible in the
\* next cycle when that cycle's fetch result contains it.
C4_FailedStaysRetryable ==
    [][/\ \A c \in Cycles :
             EndStep(c) =>
                 \A b \in cyc[c].failed : ~SetHas(processedBookingIds', IdToString(b))
       /\ \A m \in Cycles \ {1} :
             (FilterStep(m) /\ cyc[m - 1].pc = "ended") =>
                 (cyc[m - 1].failed \cap Ids(cyc'[m].allBookings))
                     \subseteq Ids(cyc'[m].gdpr)]_vars

\* C5: at most one cycle is running at any time.
C5_SingleActiveCycle == Cardinality({c \in Cycles : Running(c)}) <= 1

\* C6 as amended: every identifier in the ProcessedSet was loaded from the
\* file at startup or belongs to a booking for which subscribeToSubstack
\* returned true; none is there for a booking whose submission failed or was
\* never attempted.
C6_OnlyLoadedOrSucceeded ==
    \A s \in Range(processedBookingIds) :
        s \in loadedIds \/ \E b \in SucceededIds : IdToString(b) = s

\* C6 as claimed: in every state the ProcessedSet holds exactly the loaded
\* identifiers and those of the bookings whose submission succeeded.
C6_ExactlyLoadedOrSucceeded ==
    Range(processedBookingIds) = loadedIds \cup {IdToString(b) : b \in SucceededIds}

\* C6 witness: after the startup load the Set holds an identifier added
\* after a success, and a booking whose submission failed is not in it.
C6_Witness ==
    /\ mainPc = "ready"
    /\ \E s \in Range(processedBookingIds) :
           s \notin loadedIds /\ s \in {IdToString(b) : b \in SucceededIds}
    /\ \E c \in Cycles : \E b \in cyc[c].failed :
           ~SetHas(processedBookingIds, IdToString(b))

\* the eligibility rule as the specification words it
Eligible(booking, set) ==
    /\ booking.created_at > AUTOMATION_START_TIME
    /\ IdToString(booking.id) \notin Range(set)

\* out holds exactly the eligible elements of in, in the order of in
IsStableFilter(out, in, set) ==
    /\ Range(out) = {b \in Range(in) : Eligible(b, set)}
    /\ Len(out) = Cardinality({k \in DOMAIN in : Eligible(in[k], set)})
    /\ \E f \in [DOMAIN out -> DOMAIN in] :
           /\ \A k \in DOMAIN out : out[k] = in[f[k]]
           /\ \A j, k \in DOMAIN out : j < k => f[j] < f[k]

\* C7: the filter returns exactly the fetched bookings with created_at >
\* cutoff and id (as a string) not in the ProcessedSet, in the order of the
\* fetched list; the cutoff-only variant does so for an empty ProcessedSet.
C7_FilterExactStable ==
    [][\A c \in Cycles :
          FilterStep(c) =>
              /\ IsStableFilter(cyc'[c].gdpr, cyc'[c].allBookings, processedBookingIds)
              /\ IsStableFilter(gdprCompliantBookingsV2(cyc'[c].allBookings),
                                cyc'[c].allBookings, <<>>)]_vars

\* C7 witness: with no other cycle running, a cycle has filtered a list of
\* three bookings, one before the cutoff, one already processed, one eligible.
C7_Witness ==
    \E c \in Cycles :
        /\ \A d \in Cycles \ {c} : ~Running(d)
        /\ cyc[c].pc = "filtered"
        /\ Len(cyc[c].allBookings) = 3
        /\ Len(cyc[c].gdpr) = 1
        /\ \E b \in Range(cyc[c].allBookings) : b.created_at <= AUTOMATION_START_TIME
        /\ \E b \in Range(cyc[c].allBookings) :
               b.created_at > AUTOMATION_START_TIME
               /\ SetHas(processedBookingIds, IdToString(b.id))

\* C8: once saveProcessedBooking has returned for a booking, the load after
\* a crash and restart yields a ProcessedSet that contains it.
C8_RecordedSurvivesCrash ==
    (crashes > 0 /\ mainPc = "ready") =>
        \A b \in promised : IdToString(b) \in loadedIds

\* C9: a cycle whose fetch failed ends by the early return, not by a throw,
\* with no call of subscribeToSubstack, and its two steps (entry, and the
\* failed fetch with the return) leave the ProcessedSet, the file and
\* lastCheckTime as they were; the timer can start a new cycle afterwards
\* (once startup is over).
C9_FetchFailureEndsCycle ==
    [][\A c \in Cycles :
          /\ cyc'[c].fetchFailed =>
                 /\ cyc'[c].pc = "ended" /\ cyc'[c].how = "no_bookings"
                 /\ cyc'[c].won = {} /\ cyc'[c].failed = {}
          /\ (StartStep(c) \/ (cyc'[c].fetchFailed /\ ~cyc[c].fetchFailed)) =>
                 /\ processedBookingIds' = processedBookingIds
                 /\ file' = file
                 /\ lastCheckTime' = lastCheckTime
                 /\ mainPc' = mainPc
                 /\ ((mainPc = "ready" /\ now < MaxCycles) => ENABLED TimerTick)']_vars

\* C9 witness: after a cycle that ended on a failed fetch, with a non-empty
\* ProcessedSet, the next cycle has started.
C9_Witness ==
    \E c \in Cycles \ {MaxCycles} :
        /\ cyc[c].pc = "ended" /\ cyc[c].fetchFailed
        /\ processedBookingIds # <<>>
        /\ cyc[c + 1].pc = "fetch"

\* the HTTP variant returns true only for an answer with status 200 or 201
\* and false when both requests were rejected
ApiSubmitSound ==
    \A primary, alt \in ApiResponses :
        /\ subscribeToSubstackV2(primary, alt) =>
               \/ (~primary.rejected /\ primary.status \in {200, 201})
               \/ (primary.rejected /\ ~alt.rejected /\ alt.status \in {200, 201})
        /\ (primary.rejected /\ alt.rejected) => ~subscribeToSubstackV2(primary, alt)

\* C10 as amended: when subscribeToSubstack returns, it returns false after
\* a launch or network error, a timeout or a missing submit button, and true
\* exactly when the form was submitted without an exception, whether or not
\* the page then showed a success indicator.
C10_SubmitResult ==
    /\ \A c \in Cycles :
           cyc[c].pc = "submitted" =>
               /\ cyc[c].env.path \in {"launch_error", "nav_error", "timeout",
                                       "no_button"} => ~cyc[c].success
               /\ cyc[c].success <=> cyc[c].env.path \in {"unclear", "indicated"}
    /\ ApiSubmitSound

\* C10 as claimed: true is returned only when the remote side indicated
\* success; an error, a timeout or a page without success indication gives
\* false.
C10_TrueOnlyWhenIndicated ==
    /\ \A c \in Cycles :
           cyc[c].pc = "submitted" =>
               /\ cyc[c].env.path \in {"launch_error", "nav_error", "timeout",
                                       "no_button", "unclear"} => ~cyc[c].success
               /\ cyc[c].success => isSuccess(cyc[c].env)
    /\ ApiSubmitSound

\* C10 witness: subscribeToSubstack has returned true without a success
\* indicator, and in another cycle false after a timeout.
C10_Witness ==
    /\ \E c \in Cycles :
           cyc[c].pc = "submitted" /\ cyc[c].env.path = "unclear" /\ cyc[c].success
    /\ \E c \in Cycles :
           cyc[c].pc = "submitted" /\ cyc[c].env.path = "timeout" /\ ~cyc[c].success

\* C11: subscribeToSubstack never throws past its boundary: no invocation
\* of syncBookingsToSubstack is ended by an exception, also when releasing
\* the browser fails, and the loop goes on to the remaining bookings.
C11_SubmitNeverThrows ==
    \A c \in Cycles : ~(cyc[c].pc = "ended" /\ cyc[c].how = "threw")

\* C12: one call of subscribeToSubstack posts exactly once to its first
\* url and never repeats it; the alternative url is posted to at most once
\* and only after the first post was rejected, so a call issues at most two
\* requests; when every request of the call was rejected it returns false.
C12_OnePrimaryOneFallback ==
    http.pc \in {"primary", "alt", "returned"} =>
        /\ Len(http.requests) \in {1, 2}
        /\ http.requests[1] = PrimaryEndpoint(http.variant)
        /\ Len(http.requests) = 2 =>
               /\ http.variant = "v2"
               /\ http.requests[2] = AltEndpoint
               /\ http.requests[2] # http.requests[1]
               /\ http.primary.rejected
        /\ http.pc = "primary" => Len(http.requests) = 1
        /\ (http.pc = "returned" /\ http.primary.rejected
               /\ (Len(http.requests) = 2 => http.alt.rejected)) => ~http.success

\* C12 witness: a call of the second variant has returned false after both
\* of its posts were rejected, for the second booking of the loop.
C12_Witness ==
    /\ http.variant = "v2" /\ http.pc = "returned" /\ http.i = 2
    /\ http.requests = <<PrimaryEndpoint("v2"), AltEndpoint>>
    /\ http.primary.rejected /\ http.alt.rejected /\ ~http.success

\* the lists of identifiers saveProcessedBooking can write, and their texts
SavedLists ==
    UNION {{s \in [1..n -> {IdToString(id) : id \in BookingIds}] :
              \A a, b \in 1..n : a # b => s[a] # s[b]}
           : n \in 0..NumBookings}

IsSavedText(text) == \E s \in SavedLists : text = JSONstringify(s)

\* C13: loadProcessedBookings fails open: when the file is missing, cannot
\* be read, or its content is not a complete saved text, the ProcessedSet
\* becomes the empty set; the load never throws, so the startup callback
\* goes on and arms the initial sync.
C13_LoadFailsOpen ==
    [][(mainPc = "read" /\ mainPc' # mainPc) =>
          /\ mainPc' = "ready"
          /\ initialTimer' = "armed"
          /\ (loadBuf.kind # "present" \/ ~IsSavedText(loadBuf.text)) =>
                 /\ processedBookingIds' = <<>>
                 /\ loadedIds' = {}]_vars

\* C13 witness: startup is over with an empty ProcessedSet and the initial
\* sync armed, and the file on disk is a torn write: present, not empty, not
\* a complete text.
C13_Witness ==
    /\ mainPc = "ready" /\ initialTimer = "armed"
    /\ processedBookingIds = <<>>
    /\ file.kind = "present" /\ Len(file.text) >= 2 /\ ~IsSavedText(file.text)

\* C14: round trip of the store: the text a completed write of
\* saveProcessedBooking leaves in the file loads back as exactly the Set
\* that was written (same strings, same order), and a Set loaded from a
\* saved text would be written as that very text.
C14_StoreRoundTrip ==
    [][/\ \A c \in Cycles :
             (cyc[c].pc = "writing" /\ cyc'[c].pc = "pacing" /\ file' # file) =>
                 loadProcessedBookings(file') = [threw |-> FALSE, set |-> cyc[c].snap]
       /\ (mainPc = "read" /\ mainPc' = "ready" /\ loadBuf.kind = "present"
              /\ IsSavedText(loadBuf.text)) =>
                 /\ JSONstringify(ArrayFrom(processedBookingIds')) = loadBuf.text
                 /\ loadBuf.text = file.text =>
                        file = JsonFile(ArrayFrom(processedBookingIds'))]_vars

\* C14 witness: the startup load has put the identifier of a saved file in
\* the ProcessedSet, a second identifier was added and written, and the
\* file is the text of the whole Set.
C14_Witness ==
    /\ mainPc = "ready"
    /\ loadedIds # {}
    /\ Len(processedBookingIds) = 2
    /\ \E c \in Cycles : cyc[c].pc = "pacing" /\ cyc[c].won # {}
    /\ file = JsonFile(ArrayFrom(processedBookingIds))
    /\ loadProcessedBookings(file).set = processedBookingIds

\* C15: the ProcessedSet only grows during a process lifetime: no step
\* removes an identifier from it, also not the startup load when a cycle
\* ran while it was in progress.
C15_ProcessedSetGrows ==
    [][Range(processedBookingIds) \subseteq Range(processedBookingIds')]_vars

\* C16: within one cycle the eligible bookings are handled one after another
\* in the order of the eligible list: subscribeToSubstack is called for the
\* first booking after the filter, and for booking k+1 only after the call
\* for booking k has returned and, when it returned true, after
\* saveProcessedBooking for k has returned (no write of the cycle pending);
\* every booking before the one being submitted has its outcome, the one
\* being submitted has none yet.
C16_StrictlySequential ==
    [][\A c \in Cycles :
          CallStep(c) =>
              /\ cyc'[c].gdpr = cyc[c].gdpr
              /\ \/ cyc[c].pc = "filtered" /\ cyc'[c].i = 1
                 \/ /\ cyc[c].pc = "pacing"
                    /\ cyc'[c].i = cyc[c].i + 1
                    /\ cyc[c].snap = <<>>
                    /\ Recorded(c) = cyc[c].won
              /\ {cyc'[c].gdpr[k].id : k \in 1..(cyc'[c].i - 1)}
                     = cyc'[c].won \cup cyc'[c].failed
              /\ cyc'[c].gdpr[cyc'[c].i].id \notin cyc'[c].won \cup cyc'[c].failed]_vars

\* C16 witness: the call for the second eligible booking is under way after
\* the first succeeded and its record reached the file.
C16_Witness ==
    \E c \in Cycles :
        /\ cyc[c].pc = "submitting" /\ cyc[c].i = 2
        /\ cyc[c].won = {cyc[c].gdpr[1].id}
        /\ file = JsonFile(<<IdToString(cyc[c].gdpr[1].id)>>)

\* C17: a failed submission never aborts the batch: an invocation that
\* entered its loop ends only after subscribeToSubstack was called for every
\* eligible booking, the last one included, whatever the earlier outcomes.
C17_BatchNeverAborted ==
    [][\A c \in Cycles :
          (EndStep(c) /\ cyc[c].gdpr # <<>>) => cyc[c].i = Len(cyc[c].gdpr)]_vars

\* C18: the step that completes a cycle (its loop has run to the end) sets
\* lastCheckTime to the time of that moment, whether the submissions of the
\* cycle succeeded or failed; lastCheckTime never goes back.
C18_LastCheckTimeOnCompletion ==
    [][/\ \A c \in Cycles :
             (EndStep(c) /\ cyc'[c].how = "completed") =>
                 /\ lastCheckTime' = now'
                 /\ lastCheckTime' > 0
       /\ lastCheckTime' >= lastCheckTime]_vars

\* C18 witness: a cycle in which every submission failed has completed and
\* lastCheckTime is the time of its completion.
C18_Witness ==
    \E c \in Cycles :
        /\ cyc[c].pc = "ended" /\ cyc[c].how = "completed"
        /\ cyc[c].won = {} /\ cyc[c].failed # {}
        /\ now = c /\ lastCheckTime = now

\* C19: a cycle whose fetch result is empty, or whose eligible list is empty
\* after the filter, returns early: it has made no call of
\* subscribeToSubstack, and its filter step and its return leave the
\* ProcessedSet, the file and lastCheckTime as they were.
C19_EarlyReturnNoEffect ==
    [][\A c \in Cycles :
          /\ (cyc[c].pc = "filtered" /\ cyc[c].gdpr = <<>> /\ cyc'[c] # cyc[c]) =>
                 cyc'[c].pc = "ended" /\ cyc'[c].how = "no_new"
          /\ (cyc[c].pc = "fetch" /\ cyc'[c].pc = "ended") =>
                 cyc'[c].how = "no_bookings"
          /\ (FilterStep(c)
                \/ (EndStep(c) /\ cyc'[c].how \in {"no_bookings", "no_new"})) =>
                 /\ cyc[c].i = 0 /\ cyc'[c].i = 0
                 /\ cyc'[c].won = {} /\ cyc'[c].failed = {}
                 /\ processedBookingIds' = processedBookingIds
                 /\ file' = file
                 /\ lastCheckTime' = lastCheckTime]_vars

\* C19 witness: after a first cycle that recorded a booking and completed,
\* a second cycle fetched bookings, found none eligible and returned;
\* lastCheckTime is still that of the first cycle.
C19_Witness ==
    /\ cyc[1].pc = "ended" /\ cyc[1].how = "completed" /\ cyc[1].won # {}
    /\ cyc[2].pc = "ended" /\ cyc[2].how = "no_new"
    /\ processedBookingIds # <<>>
    /\ file = JsonFile(ArrayFrom(processedBookingIds))
    /\ lastCheckTime = 1 /\ now = 2

\* C20: every cycle that starts eventually finishes, also when a call to an
\* external service never answers.
C20_EveryCycleFinishes ==
    \A c \in Cycles : (cyc[c].pc = "fetch") ~> (cyc[c].pc = "ended")

WriteFailStep(c) == cyc'[c].unsaved # cyc[c].unsaved

\* C22: when the write inside saveProcessedBooking is rejected, the
\* identifier stays in the in-memory ProcessedSet and the cycle goes on
\* with its loop; the booking is in the eligible list of no cycle started
\* later in the same process.
C22_UnsavedStaysExcluded ==
    [][/\ \A c \in Cycles :
             WriteFailStep(c) =>
                 /\ processedBookingIds' = processedBookingIds
                 /\ cyc'[c].pc = "pacing"
                 /\ cyc'[c].gdpr = cyc[c].gdpr /\ cyc'[c].i = cyc[c].i
       /\ \A m \in Cycles :
             FilterStep(m) =>
                 \A n \in 1..(m - 1) : cyc[n].unsaved \cap Ids(cyc'[m].gdpr) = {}]_vars

\* saveProcessedBooking of cycle c hands a snapshot to fs.writeFile
IssueStep(c) == cyc[c].pc = "submitted" /\ cyc'[c].pc = "saving"

\* the strings saveProcessedBooking has added to the Set so far, each of
\* them in the snapshot issued with it
IssuedIds ==
    {IdToString(id) :
        id \in UNION {cyc[d].won \
                         (IF cyc[d].pc = "submitted" THEN {Cur(d).id} ELSE {}) :
                      d \in Cycles}}

\* C23: each snapshot saveProcessedBooking hands to the write is the whole
\* in-memory ProcessedSet at that moment, and a superset of every snapshot
\* issued earlier in the same process: of those still waiting to be written
\* by an interleaved cycle, and of the identifiers the earlier ones were
\* issued for.
C23_SnapshotsGrow ==
    [][\A c \in Cycles :
          IssueStep(c) =>
              /\ cyc'[c].snap = ArrayFrom(processedBookingIds')
              /\ \A d \in Cycles : Range(cyc[d].snap) \subseteq Range(cyc'[c].snap)
              /\ IssuedIds \subseteq Range(cyc'[c].snap)]_vars

====
